---- MODULE Spec2Model ----
(***************************************************************************)
(* A model of the shadowsocks client transport core: the encrypted         *)
(* connection (Conn: lazy cipher initialisation, IV preamble, one-time-    *)
(* auth chunk framing), the dial handshake and the two relay loops         *)
(* (PipeThenClose, PipeThenCloseOta).                                      *)
(*                                                                         *)
(* Byte strings are kept exact but symbolic.  A byte string is a sequence  *)
(* of extents; an extent names n consecutive bytes, starting at offset o,  *)
(* of a blob (a payload, an IV, a big-endian integer field, an HMAC tag).  *)
(* An extent that is ciphertext also carries the key and IV of the stream  *)
(* that produced it and the keystream position of its first byte, so that  *)
(* decrypting with another IV or at another position yields junk instead   *)
(* of the plaintext.  Lengths, 16-bit fields and buffer sizes therefore    *)
(* keep their real values.                                                 *)
(***************************************************************************)
EXTENDS Integers, Sequences, FiniteSets, TLC

\* ------------------------------------------------------------ constants
dataLenLen == 2
hmacSha1Len == 10
idxData0 == dataLenLen + hmacSha1Len
OneTimeAuthMask == 16
\* info.ivLen of the configured cipher method and the size of a pool buffer
ivLen == 16
leakyBufSize == 4108

Min(a, b) == IF a < b THEN a ELSE b

\* ------------------------------------------------------------ byte strings
Blob(t, id, m, d) == [t |-> t, id |-> id, hi |-> 0, m |-> m, d |-> d]
DataBlob(i) == Blob("data", i, <<>>, <<>>)
IvBlob(i) == Blob("iv", i, <<>>, <<>>)
KeyBlob(i) == Blob("key", i, <<>>, <<>>)
JunkBlob == Blob("junk", 0, <<>>, <<>>)

\* n plaintext bytes of blob b, from offset o
Ext(b, o, n) == [b |-> b, o |-> o, n |-> n, k |-> 0, iv |-> <<>>, p |-> 0, x |-> 0]
Bytes(b, n) == IF n = 0 THEN <<>> ELSE <<Ext(b, 0, n)>>
Junk(n) == Bytes(JunkBlob, n)

RECURSIVE BLen(_)
BLen(bs) == IF bs = <<>> THEN 0 ELSE Head(bs).n + BLen(Tail(bs))

\* the first j bytes of an extent, and the rest of it
ExtTake(e, j) == [e EXCEPT !.n = j]
ExtDrop(e, j) ==
    [e EXCEPT !.o = e.o + j, !.n = e.n - j, !.p = IF e.k = 0 THEN 0 ELSE e.p + j]

Adjacent(e, f) ==
    /\ e.b = f.b /\ e.k = f.k /\ e.iv = f.iv /\ e.x = f.x
    /\ f.o = e.o + e.n
    /\ (e.k # 0 => f.p = e.p + e.n)

\* append an extent, merging it into the last one when it continues it
Push(bs, e) ==
    IF e.n = 0 THEN bs
    ELSE IF bs # <<>> /\ Adjacent(bs[Len(bs)], e)
         THEN [bs EXCEPT ![Len(bs)].n = bs[Len(bs)].n + e.n]
         ELSE Append(bs, e)

RECURSIVE Concat(_, _)
Concat(a, b) == IF b = <<>> THEN a ELSE Concat(Push(a, Head(b)), Tail(b))

RECURSIVE Take(_, _)
Take(bs, j) ==
    IF j <= 0 \/ bs = <<>> THEN <<>>
    ELSE IF Head(bs).n <= j THEN <<Head(bs)>> \o Take(Tail(bs), j - Head(bs).n)
    ELSE <<ExtTake(Head(bs), j)>>

RECURSIVE Drop(_, _)
Drop(bs, j) ==
    IF j <= 0 \/ bs = <<>> THEN bs
    ELSE IF Head(bs).n <= j THEN Drop(Tail(bs), j - Head(bs).n)
    ELSE <<ExtDrop(Head(bs), j)>> \o Tail(bs)

Slice(bs, from, to) == Take(Drop(bs, from), to - from)

IsPrefix(a, b) == BLen(a) <= BLen(b) /\ Take(b, BLen(a)) = a

\* ------------------------------------------------------------ wire fields
\* binary.BigEndian.PutUint16 of uint16(v), as 2 bytes
U16(v) == Bytes(Blob("u16", v % 65536, <<>>, <<>>), 2)
\* a uint32 is kept as its two 16-bit halves
Zero32 == [hi |-> 0, lo |-> 0]
Incr32(v) ==
    IF v.lo = 65535 THEN [hi |-> (v.hi + 1) % 65536, lo |-> 0]
    ELSE [v EXCEPT !.lo = v.lo + 1]
U32(v) == Bytes([Blob("u32", v.lo, <<>>, <<>>) EXCEPT !.hi = v.hi], 4)

\* binary.BigEndian.Uint16: the value of an intact length field, -1 for
\* any other two bytes (their value is then not determined by the model)
Uint16(bs) ==
    IF /\ Len(bs) = 1 /\ bs[1].b.t = "u16" /\ bs[1].o = 0 /\ bs[1].n = 2
       /\ bs[1].k = 0 /\ bs[1].x = 0
    THEN bs[1].b.id ELSE -1

\* HMAC-SHA1 truncated to 10 bytes: a tag is determined by, and determines,
\* its key and its message
HmacSha1(key, data) == Bytes(Blob("hmac", 0, key, data), hmacSha1Len)

\* ------------------------------------------------------------ stream cipher
NoStream == [set |-> FALSE, iv |-> <<>>, pos |-> 0]
NewStream(iv) == [set |-> TRUE, iv |-> iv, pos |-> 0]

\* one extent through the keystream of (key, iv) at position pos
EncExt(key, iv, pos, e) ==
    IF e.k = 0 THEN [e EXCEPT !.k = key, !.iv = iv, !.p = pos]
    ELSE [Ext(JunkBlob, 0, e.n) EXCEPT !.k = key, !.iv = iv, !.p = pos]
DecExt(key, iv, pos, e) ==
    IF e.k = key /\ e.iv = iv /\ e.p = pos
    THEN [e EXCEPT !.k = 0, !.iv = <<>>, !.p = 0]
    ELSE Ext(JunkBlob, 0, e.n)

RECURSIVE EncryptAt(_, _, _, _)
EncryptAt(key, iv, pos, bs) ==
    IF bs = <<>> THEN <<>>
    ELSE Concat(<<EncExt(key, iv, pos, Head(bs))>>,
                EncryptAt(key, iv, pos + Head(bs).n, Tail(bs)))

RECURSIVE DecryptAt(_, _, _, _)
DecryptAt(key, iv, pos, bs) ==
    IF bs = <<>> THEN <<>>
    ELSE Concat(<<DecExt(key, iv, pos, Head(bs))>>,
                DecryptAt(key, iv, pos + Head(bs).n, Tail(bs)))

\* ------------------------------------------------------------ transport
\* The inbound side of a transport is the queue of segments that have
\* arrived and not been read, and how the stream ends: "open" (more may
\* come), "eof" or "err" (a timeout or a reset), seen once the queue is
\* drained.  A read of up to n bytes takes from the first segment only.
\* With both = TRUE a read that drains the last segment of an ended stream
\* returns its bytes together with the error.
TRead(segs, end, n, both) ==
    IF n = 0 THEN [data |-> <<>>, segs |-> segs, err |-> "nil", blocked |-> FALSE]
    ELSE IF segs # <<>> THEN
        LET j == Min(n, BLen(Head(segs)))
            rest == IF j = BLen(Head(segs)) THEN Tail(segs)
                    ELSE <<Drop(Head(segs), j)>> \o Tail(segs)
        IN [data |-> Take(Head(segs), j), segs |-> rest,
            err |-> IF both /\ rest = <<>> /\ end # "open" THEN end ELSE "nil",
            blocked |-> FALSE]
    ELSE [data |-> <<>>, segs |-> segs, err |-> IF end = "open" THEN "nil" ELSE end,
          blocked |-> end = "open"]

\* io.ReadFull on a transport: read until need bytes are in, or an error
RECURSIVE ReadFullT(_, _, _, _, _)
ReadFullT(segs, end, need, both, got) ==
    IF BLen(got) >= need
    THEN [data |-> got, segs |-> segs, err |-> "nil", blocked |-> FALSE, k |-> 0]
    ELSE LET r == TRead(segs, end, need - BLen(got), both)
             now == Concat(got, r.data)
             more == ReadFullT(r.segs, end, need, both, now)
         IN IF r.blocked
            THEN [data |-> got, segs |-> segs, err |-> "nil", blocked |-> TRUE, k |-> 0]
            ELSE IF r.err # "nil" THEN
                [data |-> now, segs |-> r.segs,
                 err |-> IF BLen(now) >= need THEN "nil"
                         ELSE IF r.err = "eof" /\ BLen(now) > 0 THEN "unexpectedEOF"
                         ELSE r.err,
                 blocked |-> FALSE, k |-> 1]
            ELSE [more EXCEPT !.k = more.k + 1]

\* a transport write of data: it succeeds while the outbound side works
\* (budget > 0 writes left before it breaks, for good); a failing write
\* accepts part bytes at most.  log records every write call issued.
TWrite(log, budget, data, part) ==
    IF budget > 0
    THEN [log |-> Append(log, [data |-> data, n |-> BLen(data), err |-> "nil"]),
          budget |-> budget - 1, n |-> BLen(data), err |-> "nil"]
    ELSE [log |-> Append(log, [data |-> data, n |-> Min(part, BLen(data)), err |-> "err"]),
          budget |-> 0, n |-> Min(part, BLen(data)), err |-> "err"]

\* ------------------------------------------------------------ Conn
\* NewConn: no IV, no stream state, chunk id 0, two pool buffers on loan.
\* ok tells whether the cipher's stream constructor works for this
\* session; gen counts the IVs the session has generated.
NewConn(key, ota, ok) ==
    [st |-> "open", key |-> key, ota |-> ota, ok |-> ok, iv |-> <<>>,
     enc |-> NoStream, dec |-> NoStream, chunkId |-> Zero32, gen |-> 0,
     encInits |-> 0, decInits |-> 0, closes |-> 0, puts |-> 0]
NoConn == [NewConn(0, FALSE, FALSE) EXCEPT !.st = "none"]

\* Conn.Close: both scratch buffers go back to the pool, the transport closes
Close(c) == [c EXCEPT !.st = "closed", !.puts = c.puts + 2, !.closes = c.closes + 1]

\* Cipher.initEncrypt: a fresh IV seeds the encrypt stream and is returned;
\* it becomes the session IV unless one was recorded already
FreshIv(c) == Bytes(IvBlob(10 + c.gen), ivLen)
initEncrypt(c) ==
    IF ~c.ok THEN [c |-> c, iv |-> <<>>, err |-> "crypto"]
    ELSE [c |-> [c EXCEPT !.enc = NewStream(FreshIv(c)), !.gen = c.gen + 1,
                          !.encInits = c.encInits + 1,
                          !.iv = IF c.iv = <<>> THEN FreshIv(c) ELSE c.iv],
          iv |-> FreshIv(c), err |-> "nil"]

\* Cipher.initDecrypt(iv)
initDecrypt(c, iv) ==
    IF ~c.ok THEN [c |-> c, err |-> "crypto"]
    ELSE [c |-> [c EXCEPT !.dec = NewStream(iv), !.decInits = c.decInits + 1],
          err |-> "nil"]

\* Cipher.encrypt / Cipher.decrypt: the stream advances by the bytes done
encrypt(c, b) ==
    [c |-> [c EXCEPT !.enc.pos = c.enc.pos + BLen(b)],
     out |-> EncryptAt(c.key, c.enc.iv, c.enc.pos, b)]
decrypt(c, b) ==
    [c |-> [c EXCEPT !.dec.pos = c.dec.pos + BLen(b)],
     out |-> DecryptAt(c.key, c.dec.iv, c.dec.pos, b)]

GetChunkIdNoIncr(c) == [c |-> c, chunkId |-> c.chunkId]
\* Conn.GetAndIncrChunkId
GetAndIncrChunkId(c) ==
    [c |-> [c EXCEPT !.chunkId = Incr32(c.chunkId)], chunkId |-> c.chunkId]

\* otaReqChunkAuth: length field, tag over the data keyed by iv ++ chunk id, data
otaReqChunkAuth(iv, chunkId, data) ==
    Concat(Concat(U16(BLen(data)), HmacSha1(Concat(iv, U32(chunkId)), data)), data)

\* otaConnectAuth: the record followed by its tag keyed by iv ++ key
otaConnectAuth(iv, key, data) ==
    Concat(data, HmacSha1(Concat(iv, Bytes(KeyBlob(key), 1)), data))

\* (mutant) bytes that came with an error are dropped
ReadBodyErrFirst(c, segs, end, blen, both, ivRead) ==
    LET r == TRead(segs, end, blen, both)
        d == decrypt(c, r.data)
        keep == BLen(r.data) > 0 /\ r.err = "nil"
    IN [c |-> IF keep THEN d.c ELSE c, segs |-> r.segs,
        n |-> IF keep THEN BLen(r.data) ELSE 0, err |-> r.err,
        out |-> IF keep THEN d.out ELSE <<>>,
        blocked |-> r.blocked, ivRead |-> ivRead, k |-> 0]
\* Conn.Read(b) with len(b) = blen, on the inbound side (segs, end)
ReadBody(c, segs, end, blen, both, ivRead) ==
    LET r == TRead(segs, end, blen, both)
        d == decrypt(c, r.data)
    IN [c |-> IF BLen(r.data) > 0 THEN d.c ELSE c, segs |-> r.segs,
        n |-> BLen(r.data), err |-> r.err,
        out |-> IF BLen(r.data) > 0 THEN d.out ELSE <<>>,
        blocked |-> r.blocked, ivRead |-> ivRead, k |-> 0]
\* (mutant) the IV taken from a single transport read
ReadIvOnce(segs, end, both) ==
    TRead(segs, end, ivLen, both) @@ [k |-> 1]
\* io.ReadFull(c.Conn, iv) with iv of c.info.ivLen bytes
ReadIv(segs, end, both) == ReadFullT(segs, end, ivLen, both, <<>>)
Read(c, segs, end, blen, both) ==
    IF ~c.dec.set THEN
        LET f == ReadIv(segs, end, both)
            i == initDecrypt(c, f.data)
            ci == [i.c EXCEPT !.iv = IF BLen(i.c.iv) = 0 THEN f.data ELSE i.c.iv]
            fail(e, seen) == [c |-> c, segs |-> f.segs, n |-> 0, err |-> e, out |-> <<>>,
                              blocked |-> FALSE, ivRead |-> seen, k |-> f.k]
        IN IF f.blocked THEN [fail("nil", <<>>) EXCEPT !.blocked = TRUE, !.segs = segs]
           ELSE IF f.err # "nil" THEN fail(f.err, <<>>)
           ELSE IF i.err # "nil" THEN fail(i.err, <<f.data>>)
           ELSE LET r == ReadBody(ci, f.segs, end, blen, both, <<f.data>>)
                IN IF r.blocked THEN [r EXCEPT !.c = c, !.segs = segs, !.ivRead = <<>>]
                   ELSE [r EXCEPT !.k = f.k]
    ELSE ReadBody(c, segs, end, blen, both, <<>>)

\* (mutant) the encrypt state initialised on every write
writeReinit(c, log, budget, b, part) ==
    LET i == initEncrypt(c)
        e == encrypt(i.c, b)
        w == TWrite(log, budget, Concat(i.iv, e.out), part)
    IN IF i.err # "nil"
       THEN [c |-> c, log |-> log, budget |-> budget, n |-> 0, err |-> i.err]
       ELSE [c |-> e.c, log |-> w.log, budget |-> w.budget, n |-> w.n, err |-> w.err]
\* (mutant) the IV and the first ciphertext sent as two transport writes
writeSplit(c, log, budget, b, part) ==
    LET i == IF ~c.enc.set THEN initEncrypt(c) ELSE [c |-> c, iv |-> <<>>, err |-> "nil"]
        e == encrypt(i.c, b)
        w0 == IF i.iv # <<>> THEN TWrite(log, budget, i.iv, part)
              ELSE [log |-> log, budget |-> budget]
        w == TWrite(w0.log, w0.budget, e.out, part)
    IN IF i.err # "nil"
       THEN [c |-> c, log |-> log, budget |-> budget, n |-> 0, err |-> i.err]
       ELSE [c |-> e.c, log |-> w.log, budget |-> w.budget, n |-> w.n, err |-> w.err]
\* Conn.write(b) on the outbound side (log, budget)
write(c, log, budget, b, part) ==
    LET i == IF ~c.enc.set THEN initEncrypt(c) ELSE [c |-> c, iv |-> <<>>, err |-> "nil"]
        e == encrypt(i.c, b)
        w == TWrite(log, budget, Concat(i.iv, e.out), part)
    IN IF i.err # "nil"
       THEN [c |-> c, log |-> log, budget |-> budget, n |-> 0, err |-> i.err]
       ELSE [c |-> e.c, log |-> w.log, budget |-> w.budget, n |-> w.n, err |-> w.err]

\* Conn.Write(b)
Write(c, log, budget, b, part) ==
    IF c.ota
    THEN LET g == GetAndIncrChunkId(c)
         IN write(g.c, log, budget, otaReqChunkAuth(c.iv, g.chunkId, b), part)
    ELSE write(c, log, budget, b, part)

\* rawaddr[0] |= OneTimeAuthMask, on the address-type byte of a record
OrMask(id) == IF (id \div OneTimeAuthMask) % 2 = 1 THEN id ELSE id + OneTimeAuthMask
SetOtaBit(rec) ==
    IF rec # <<>> /\ rec[1].b.t = "atyp"
    THEN Concat(Bytes(Blob("atyp", OrMask(rec[1].b.id), <<>>, <<>>), 1), Drop(rec, 1))
    ELSE Concat(Junk(1), Drop(rec, 1))

\* (mutant) the OTA handshake without the standalone IV write
DialNoIvWrite(addr, key, ota, ok, dialOk, log, budget, part) ==
    LET c0 == NewConn(key, ota, ok)
        i == IF ota /\ ~c0.enc.set THEN initEncrypt(c0)
             ELSE [c |-> c0, iv |-> <<>>, err |-> "nil"]
        marked == IF ota THEN SetOtaBit(addr) ELSE addr
        rec == IF ota THEN otaConnectAuth(i.c.iv, key, marked) ELSE addr
        w2 == write(i.c, log, budget, rec, part)
    IN IF ~dialOk
       THEN [c |-> NoConn, conn |-> FALSE, err |-> "dial", log |-> log,
             budget |-> budget, addr |-> addr]
       ELSE IF i.err # "nil"
       THEN [c |-> c0, conn |-> TRUE, err |-> i.err, log |-> log,
             budget |-> budget, addr |-> addr]
       ELSE IF w2.err # "nil"
       THEN [c |-> Close(w2.c), conn |-> FALSE, err |-> w2.err, log |-> w2.log,
             budget |-> w2.budget, addr |-> marked]
       ELSE [c |-> w2.c, conn |-> TRUE, err |-> "nil", log |-> w2.log,
             budget |-> w2.budget, addr |-> marked]
\* DialWithRawAddr(rawaddr, server, cipher): dialOk is the outcome of
\* net.Dial; the result carries the returned connection (nil or not), the
\* connection object as the call left it and the caller's rawaddr slice
DialWithRawAddr(addr, key, ota, ok, dialOk, log, budget, part) ==
    LET c0 == NewConn(key, ota, ok)
        i == IF ota /\ ~c0.enc.set THEN initEncrypt(c0)
             ELSE [c |-> c0, iv |-> <<>>, err |-> "nil"]
        w1 == IF ota THEN TWrite(log, budget, i.c.iv, part)
              ELSE [log |-> log, budget |-> budget, n |-> 0, err |-> "nil"]
        marked == IF ota THEN SetOtaBit(addr) ELSE addr
        rec == IF ota THEN otaConnectAuth(i.c.iv, key, marked) ELSE addr
        w2 == write(i.c, w1.log, w1.budget, rec, part)
    IN IF ~dialOk
       THEN [c |-> NoConn, conn |-> FALSE, err |-> "dial", log |-> log,
             budget |-> budget, addr |-> addr]
       ELSE IF i.err # "nil"
       THEN [c |-> c0, conn |-> TRUE, err |-> i.err, log |-> log,
             budget |-> budget, addr |-> addr]
       ELSE IF w2.err # "nil"
       THEN [c |-> Close(w2.c), conn |-> FALSE, err |-> w2.err, log |-> w2.log,
             budget |-> w2.budget, addr |-> marked]
       ELSE [c |-> w2.c, conn |-> TRUE, err |-> "nil", log |-> w2.log,
             budget |-> w2.budget, addr |-> marked]

\* ------------------------------------------------------------ one connection
\* Spec: one Conn, created by the dial handshake or by NewConn on an
\* accepted transport, then read, written and closed, while the peer's
\* stream (its IV, then its ciphertext) arrives in segments.
VARIABLES
    c,        \* the Conn and its cipher session
    via,      \* how it was created: "none", "dial", "accept"
    rx,       \* inbound segments arrived and unread
    rxEnd,    \* how the inbound stream ends
    peer,     \* the bytes the peer has still to send
    wire,     \* the transport write calls issued, in order
    wbudget,  \* transport writes that will still succeed
    rawaddr,  \* the caller's address record slice
    ret,      \* what the last call returned
    calls,    \* payloads given to Conn.Write, in order
    plain,    \* plaintext returned by Conn.Read so far
    ivArgs    \* the byte strings handed to initDecrypt

connVars == <<c, via, rx, rxEnd, peer, wire, wbudget, rawaddr, ret, calls, plain, ivArgs>>

\* a relay loop (PipeThenClose or PipeThenCloseOta) from src to dst, and,
\* for the OTA relay, the peer connection whose writes it receives
VARIABLES
    mode,       \* "none", "plain" or "ota"
    snd,        \* the sending Conn (OTA)
    flight,     \* the sender's transport writes not yet arrived at src
    tampered,   \* index of the chunk changed in transit, 0 if none
    pc,         \* the loop: "run", "done", or "panic" after a run-time panic
    why,        \* what ended the loop
    dwire,      \* the write calls issued on dst, in order
    dbudget,    \* dst writes that will still succeed
    dcloses,    \* Close calls on dst
    srcCloses,  \* Close calls on src
    srcRead,    \* the bytes the loop's reads of src returned, in order
    lastRead    \* what the loop's last read of src returned

relayVars == <<mode, snd, flight, tampered, pc, why, dwire, dbudget, dcloses, srcCloses,
               srcRead, lastRead>>

\* the buffer pool, the connections that borrow from it and the relay loops
\* between two of them
VARIABLES
    free,   \* the pool's free list
    nbuf,   \* buffers allocated so far
    cs,     \* per connection: its two scratch buffers and its Close calls
    lp      \* per relay loop: its position and its buffer

poolVars == <<free, nbuf, cs, lp>>

\* the read deadline of a relay loop's src
VARIABLES
    readTimeout,  \* the configured timeout, 0 for none
    srcLog        \* what the loop's last iteration did on src, in order

timerVars == <<readTimeout, srcLog>>

\* a single computation: its input and its result
VARIABLES
    fnIn,   \* the argument
    fnOut   \* the result, once computed

fnVars == <<fnIn, fnOut>>

\* processes that call GetAndIncrChunkId on one connection, and the
\* connection's own outbound side when it is also a relay's src
VARIABLES
    procs,  \* per process: where it is in GetAndIncrChunkId, its locals, its results
    back,   \* the transport writes of the relay's src connection
    ids     \* the chunk ids handed out on the relay's src connection, and to whom

duplexVars == <<back, ids>>
extraVars == <<fnVars, procs, duplexVars>>
auxVars == <<poolVars, timerVars, extraVars>>
vars == <<connVars, relayVars, auxVars>>

MaxWrites == 2
PeerLen == 20
Key == 1
WriteLens == {0, 5}

PeerIv == Bytes(IvBlob(2), ivLen)
PeerPayload == Bytes(DataBlob(100), PeerLen)
PeerStream == Concat(PeerIv, EncryptAt(Key, PeerIv, 0, PeerPayload))
\* the address record of host:port, 03 len host port
AddrRecord == Concat(Bytes(Blob("atyp", 3, <<>>, <<>>), 1), Bytes(Blob("addr", 1, <<>>, <<>>), 14))
NoRead == [n |-> 0, err |-> "nil"]
\* no relay is running
RelayIdle ==
    /\ mode = "none" /\ snd = NoConn /\ flight = <<>> /\ tampered = 0
    /\ pc = "done" /\ why = "none" /\ dwire = <<>> /\ dbudget = 0
    /\ dcloses = 0 /\ srcCloses = 0 /\ srcRead = <<>> /\ lastRead = NoRead
\* no pool is modelled
PoolIdle == free = <<>> /\ nbuf = 0 /\ cs = <<>> /\ lp = <<>>
TimerIdle == readTimeout = 0 /\ srcLog = <<>>
NoResult == [done |-> FALSE]
FnIdle == fnIn = 0 /\ fnOut = NoResult
ExtraIdle == FnIdle /\ procs = <<>> /\ back = <<>> /\ ids = <<>>
AuxIdle == PoolIdle /\ TimerIdle /\ ExtraIdle
NoRet == [op |-> "none", n |-> 0, err |-> "nil", conn |-> FALSE, len |-> 0, k |-> 0]

ConnInit ==
    /\ c \in {[NoConn EXCEPT !.ota = o, !.ok = k, !.key = Key] : o \in BOOLEAN, k \in BOOLEAN}
    /\ via = "none"
    /\ rx = <<>> /\ rxEnd = "open" /\ peer = PeerStream
    /\ wire = <<>> /\ wbudget \in {0, 1, MaxWrites + 3}
    /\ rawaddr = AddrRecord
    /\ ret = NoRet /\ calls = <<>> /\ plain = <<>> /\ ivArgs = <<>>
    /\ RelayIdle /\ AuxIdle

Dial ==
    /\ c.st = "none" /\ via = "none"
    /\ \E dialOk \in BOOLEAN, part \in {1} :
        \E r \in {DialWithRawAddr(rawaddr, c.key, c.ota, c.ok, dialOk, wire, wbudget, part)} :
           /\ c' = IF r.c.st = "none" THEN c ELSE r.c
           /\ via' = "dial"
           /\ wire' = r.log /\ wbudget' = r.budget /\ rawaddr' = r.addr
           /\ ret' = [NoRet EXCEPT !.op = "dial", !.err = r.err, !.conn = r.conn]
    /\ UNCHANGED <<rx, rxEnd, peer, calls, plain, ivArgs>>
    /\ UNCHANGED relayVars /\ UNCHANGED auxVars

Accept ==
    /\ c.st = "none" /\ via = "none"
    /\ c' = NewConn(c.key, c.ota, c.ok)
    /\ via' = "accept"
    /\ ret' = [NoRet EXCEPT !.op = "accept", !.conn = TRUE]
    /\ UNCHANGED <<rx, rxEnd, peer, wire, wbudget, rawaddr, calls, plain, ivArgs>>
    /\ UNCHANGED relayVars /\ UNCHANGED auxVars

\* a read that failed ends the use of the read side
ReadOf(lens) ==
    /\ c.st = "open"
    /\ ~(ret.op = "read" /\ ret.err # "nil")
    /\ \E blen \in lens, both \in BOOLEAN :
        \E r \in {Read(c, rx, rxEnd, blen, both)} :
           /\ ~r.blocked
           /\ c' = r.c /\ rx' = r.segs
           /\ plain' = Concat(plain, r.out)
           /\ ivArgs' = ivArgs \o r.ivRead
           /\ ret' = [NoRet EXCEPT !.op = "read", !.n = r.n, !.err = r.err, !.len = blen,
                                   !.k = r.k]
    /\ UNCHANGED <<via, rxEnd, peer, wire, wbudget, rawaddr, calls>>
    /\ UNCHANGED relayVars /\ UNCHANGED auxVars

ConnWrite ==
    /\ c.st = "open"
    /\ Len(calls) < MaxWrites
    /\ \E len \in WriteLens, part \in {1} :
        \E b \in {Bytes(DataBlob(Len(calls) + 1), len)} :
        \E r \in {Write(c, wire, wbudget, b, part)} :
           /\ c' = r.c /\ wire' = r.log /\ wbudget' = r.budget
           /\ calls' = Append(calls, b)
           /\ ret' = [NoRet EXCEPT !.op = "write", !.n = r.n, !.err = r.err, !.len = len]
    /\ UNCHANGED <<via, rx, rxEnd, peer, rawaddr, plain, ivArgs>>
    /\ UNCHANGED relayVars /\ UNCHANGED auxVars

ConnClose ==
    /\ c.st = "open"
    /\ c' = Close(c)
    /\ ret' = [NoRet EXCEPT !.op = "close"]
    /\ UNCHANGED <<via, rx, rxEnd, peer, wire, wbudget, rawaddr, calls, plain, ivArgs>>
    /\ UNCHANGED relayVars /\ UNCHANGED auxVars

\* the peer's next bytes arrive as one segment: all that is left, or a
\* cut of k bytes at a stream offset the plan allows
Arrived == BLen(PeerStream) - BLen(peer)
DeliverOf(total, plan) ==
    /\ rxEnd = "open" /\ peer # <<>>
    /\ \E k \in {BLen(peer)} \cup {q[2] : q \in {q \in plan : q[1] = total - BLen(peer)}} :
        /\ k <= BLen(peer)
        /\ rx' = Append(rx, Take(peer, k))
        /\ peer' = Drop(peer, k)
    /\ UNCHANGED <<c, via, rxEnd, wire, wbudget, rawaddr, ret, calls, plain, ivArgs>>
    /\ UNCHANGED relayVars /\ UNCHANGED auxVars

\* the inbound stream ends: the peer closes, or a deadline or a reset hits
EndStream ==
    /\ rxEnd = "open"
    /\ rxEnd' \in {"eof", "err"}
    /\ UNCHANGED <<c, via, rx, peer, wire, wbudget, rawaddr, ret, calls, plain, ivArgs>>
    /\ UNCHANGED relayVars /\ UNCHANGED auxVars

ConnRead == ReadOf({12, 4200})
Deliver == DeliverOf(BLen(PeerStream), {<<0, ivLen - 1>>})

ConnNext == Dial \/ Accept \/ ConnRead \/ ConnWrite \/ ConnClose \/ Deliver \/ EndStream

Spec == ConnInit /\ [][ConnNext]_vars

\* ------------------------------------------------------------ reading
\* SpecRead: a connection that is only read, fresh or after its first
\* write, while the peer's stream arrives cut in many ways.
CutPlan ==
    {<<0, 1>>, <<1, ivLen - 1>>, <<0, 5>>, <<5, 5>>, <<10, 6>>, <<0, ivLen - 1>>,
     <<ivLen - 1, 1>>, <<0, ivLen>>, <<ivLen, 1>>, <<0, ivLen + 1>>, <<ivLen + 1, 3>>}
FirstWrite == write(NewConn(Key, FALSE, TRUE), <<>>, 1, Bytes(DataBlob(1), 5), 1)

ReadInit ==
    /\ \/ /\ c \in {NewConn(Key, FALSE, k) : k \in BOOLEAN}
          /\ wire = <<>> /\ calls = <<>> /\ wbudget = 1
          /\ ret = [NoRet EXCEPT !.op = "accept", !.conn = TRUE]
       \/ /\ c = FirstWrite.c
          /\ wire = FirstWrite.log /\ calls = <<Bytes(DataBlob(1), 5)>> /\ wbudget = 0
          /\ ret = [NoRet EXCEPT !.op = "write", !.n = FirstWrite.n, !.len = 5]
    /\ via = "accept"
    /\ rx = <<>> /\ rxEnd = "open" /\ peer = PeerStream
    /\ rawaddr = AddrRecord /\ plain = <<>> /\ ivArgs = <<>>
    /\ RelayIdle /\ AuxIdle

ReadAny == ReadOf({0, 1, 12, 4200})
DeliverAny == DeliverOf(BLen(PeerStream), CutPlan)
ReadNext == ReadAny \/ DeliverAny \/ EndStream \/ ConnClose

SpecRead == ReadInit /\ [][ReadNext]_vars

RECURSIVE BLenAll(_)
BLenAll(segs) == IF segs = <<>> THEN 0 ELSE BLen(Head(segs)) + BLenAll(Tail(segs))
\* bytes the connection has taken from its transport
Consumed == Arrived - BLenAll(rx)

C17_ReadOnceDecryptN ==
    [][(c.dec.set /\ ret'.op = "read" /\ (ret' # ret \/ c' # c \/ plain' # plain)) =>
        /\ ret'.n <= ret'.len /\ ret'.k = 0
        /\ ret'.n = (IF rx = <<>> THEN 0 ELSE Min(ret'.len, BLen(Head(rx))))
        /\ BLenAll(rx) - BLenAll(rx') = ret'.n
        /\ c'.dec = [c.dec EXCEPT !.pos = c.dec.pos + ret'.n]
        /\ ret'.n > 0 =>
            plain' = Concat(plain, DecryptAt(c.key, c.dec.iv, c.dec.pos,
                                             Take(Head(rx), ret'.n)))
        /\ ret'.n = 0 => plain' = plain
        /\ ret'.err \in {"nil", rxEnd}
        /\ ret'.err # "nil" => rx' = <<>>
        /\ (rx = <<>> /\ ret'.len > 0) => ret'.err = rxEnd /\ rxEnd # "open"]_vars
\* the last bytes of the payload returned together with EOF by a later read
C17_Witness ==
    /\ ret.op = "read" /\ ret.k = 0 /\ ret.n > 0 /\ ret.n < PeerLen /\ ret.err = "eof"
    /\ plain = PeerPayload /\ c.dec.pos = PeerLen

\* ------------------------------------------------------------ claims on Spec
\* C6: each direction's stream state is initialised at most once, is never
\* replaced once set (only its position advances), and a step that
\* initialises one direction leaves the other direction's state as it was.
C6_InitOnce ==
    [][/\ c'.encInits <= 1 /\ c'.decInits <= 1
       /\ c.enc.set => c'.enc.set /\ c'.enc.iv = c.enc.iv /\ c'.encInits = c.encInits
       /\ c.dec.set => c'.dec.set /\ c'.dec.iv = c.dec.iv /\ c'.decInits = c.decInits
       /\ c'.encInits > c.encInits => c'.dec = c.dec
       /\ c'.decInits > c.decInits => c'.enc = c.enc]_vars
\* both directions initialised, by the handshake and by a read, and reused
C6_Witness ==
    /\ via = "dial" /\ c.encInits = 1 /\ c.decInits = 1
    /\ Len(calls) = 2 /\ c.enc.pos > BLen(AddrRecord) /\ c.dec.pos > 12

\* a whole IV, in the clear
IsIv(bs) ==
    /\ Len(bs) = 1 /\ bs[1].b.t = "iv" /\ bs[1].o = 0 /\ bs[1].n = ivLen /\ bs[1].k = 0
\* ciphertext of this connection's encrypt stream and nothing else
OnlyCipher(bs) == \A j \in 1..Len(bs) : bs[j].k = c.key /\ bs[j].iv = c.enc.iv
\* the payloads that went through Conn.write, in order
Payloads == (IF via = "dial" THEN <<AddrRecord>> ELSE <<>>) \o calls
\* the ciphertext part of the i-th transport write and where its keystream starts
CtOf(i) == IF i = 1 THEN Drop(wire[1].data, ivLen) ELSE wire[i].data
RECURSIVE PosOf(_)
PosOf(i) == IF i = 1 THEN 0 ELSE PosOf(i - 1) + BLen(CtOf(i - 1))
PlainOf(i) == DecryptAt(c.key, c.enc.iv, PosOf(i), CtOf(i))

\* C7: on a connection not opened by the OTA handshake, with a usable
\* cipher session, every write issues exactly one transport write; the
\* first carries the IV followed by the ciphertext of its payload, every
\* later one ciphertext only, continuing the same keystream; so the IV is
\* on the wire once, before any ciphertext.
C7_IvOnceThenCiphertext ==
    (c.st # "none" /\ c.ok /\ ~(via = "dial" /\ c.ota)) =>
        /\ Len(wire) = Len(Payloads)
        /\ \A i \in 1..Len(wire) :
            /\ i = 1 => IsIv(Take(wire[1].data, ivLen)) /\ Take(wire[1].data, ivLen) = c.enc.iv
            /\ OnlyCipher(CtOf(i))
            /\ BLen(PlainOf(i)) = BLen(Payloads[i]) + (IF c.ota THEN idxData0 ELSE 0)
            /\ Drop(PlainOf(i), BLen(PlainOf(i)) - BLen(Payloads[i])) = Payloads[i]
C7_Witness ==
    /\ via = "accept" /\ c.ok /\ Len(wire) = 2
    /\ wire[1].err = "nil" /\ wire[2].err = "nil" /\ BLen(calls[1]) > 0 /\ BLen(calls[2]) > 0

\* C8: Conn.Write returns the number of caller-supplied bytes written: on
\* a successful transport write len(b), never more (no IV, no chunk header
\* counted); a transport write error reaches the caller.
C8_WriteReturnsPlainCount ==
    ret.op = "write" =>
        /\ ret.n <= ret.len
        /\ ret.err = "nil" => ret.n = ret.len
        /\ (Len(wire) > 0 /\ wire[Len(wire)].err # "nil") => ret.err # "nil"

\* C9: after a successful dial with a fresh session the transport has seen,
\* with OTA off, one write of IV ++ ciphertext of the address record (no
\* tag); with OTA on, the raw IV alone, then one write of ciphertext only:
\* the record with bit 0x10 set in its type byte, followed by its 10-byte
\* tag.  The chunk id is still 0.
C9_DialWire ==
    (ret.op = "dial" /\ ret.err = "nil") =>
        /\ ret.conn /\ c.chunkId = Zero32 /\ IsIv(c.enc.iv)
        /\ ~c.ota =>
            /\ Len(wire) = 1
            /\ Take(wire[1].data, ivLen) = c.enc.iv
            /\ OnlyCipher(CtOf(1))
            /\ PlainOf(1) = AddrRecord
        /\ c.ota =>
            /\ Len(wire) = 2
            /\ wire[1].data = c.enc.iv
            /\ OnlyCipher(wire[2].data)
            /\ LET rec == DecryptAt(c.key, c.enc.iv, 0, wire[2].data)
                   tag == Drop(rec, BLen(AddrRecord))
               IN /\ BLen(rec) = BLen(AddrRecord) + hmacSha1Len
                  /\ rec[1].b.t = "atyp" /\ rec[1].n = 1
                  /\ rec[1].b.id = AddrRecord[1].b.id + OneTimeAuthMask
                  /\ Slice(rec, 1, BLen(AddrRecord)) = Drop(AddrRecord, 1)
                  /\ Len(tag) = 1 /\ tag[1].b.t = "hmac" /\ tag[1].o = 0
C9_Witness ==
    /\ ret.op = "dial" /\ ret.err = "nil" /\ c.ota /\ Len(wire) = 2 /\ c.enc.pos = 25

\* C10: a dial that fails at any step returns no connection and an error
\* and leaves nothing open (transport closed, both buffers back in the
\* pool); a dial that succeeds returns a connection with the encrypt state
\* set and the decrypt state unset.
C10_DialCleansUp ==
    ret.op = "dial" =>
        /\ ret.err # "nil" =>
            /\ ~ret.conn
            /\ c.st = "none" \/ (c.st = "closed" /\ c.closes = 1 /\ c.puts = 2)
        /\ ret.err = "nil" => ret.conn /\ c.st = "open" /\ c.enc.set /\ ~c.dec.set

\* C18: DialWithRawAddr leaves the caller's address record as it was,
\* byte for byte, whether it succeeds or fails, with OTA or without.
C18_RawAddrUnchanged ==
    ret.op = "dial" => rawaddr = AddrRecord

\* the chunk id in the key of the tag of the chunk that the j-th Conn.Write
\* put on the wire
ChunkAt(j) == PlainOf((IF via = "dial" THEN 2 ELSE 0) + j)
TagIdOf(j) ==
    LET tag == Slice(ChunkAt(j), dataLenLen, idxData0)
    IN IF Len(tag) = 1 /\ tag[1].b.t = "hmac" /\ tag[1].n = hmacSha1Len
       THEN Drop(tag[1].b.m, BLen(tag[1].b.m) - 4) ELSE <<>>

\* the IV in the key of that tag
TagIvOf(j) ==
    LET tag == Slice(ChunkAt(j), dataLenLen, idxData0)
    IN IF Len(tag) = 1 /\ tag[1].b.t = "hmac" /\ tag[1].n = hmacSha1Len
       THEN Take(tag[1].b.m, BLen(tag[1].b.m) - 4) ELSE <<>>

\* C19: the IV that enters the tag of every chunk Conn.Write sends on an
\* OTA connection, the first Write on a connection fresh from NewConn
\* included, is non-empty and is the IV the peer receives as this
\* connection's preamble.
C19_TagIvIsPreambleIv ==
    c.ota =>
        \A j \in 1..Len(calls) :
            (IF via = "dial" THEN 2 ELSE 0) + j <= Len(wire) =>
                /\ IsIv(TagIvOf(j))
                /\ TagIvOf(j) = c.enc.iv

\* C15: the chunk id starts at 0 and is the number of Conn.Write calls made
\* on an OTA connection (it stays 0 without OTA); it changes only in a
\* Conn.Write, by one; Conn.Read and the handshake leave it alone; the j-th
\* chunk's tag carries the value j-1.
C15_ChunkIdCounts ==
    /\ [](/\ c.chunkId = (IF c.ota THEN [hi |-> 0, lo |-> Len(calls)] ELSE Zero32)
          /\ c.ota =>
               \A j \in 1..Len(calls) :
                   (IF via = "dial" THEN 2 ELSE 0) + j <= Len(wire) =>
                       TagIdOf(j) = U32([hi |-> 0, lo |-> j - 1]))
    /\ [][c'.chunkId # c.chunkId =>
            /\ ret'.op = "write" /\ Len(calls') = Len(calls) + 1
            /\ c'.chunkId = Incr32(c.chunkId)]_vars
C15_Witness ==
    /\ via = "dial" /\ c.ota /\ c.chunkId = [hi |-> 0, lo |-> 2] /\ c.dec.set
    /\ Len(wire) = 4 /\ TagIdOf(2) = U32([hi |-> 0, lo |-> 1])

\* ------------------------------------------------------------ relay loops
\* io.ReadFull(src, buf) with src a Conn: Conn.Read until need bytes are in
RECURSIVE ReadFullC(_, _, _, _, _, _)
ReadFullCNext(cn, segs, end, need, both, got, r, now) ==
    IF r.blocked
    THEN [c |-> cn, segs |-> segs, data |-> got, err |-> "nil", blocked |-> TRUE]
    ELSE IF r.err # "nil" THEN
        [c |-> r.c, segs |-> r.segs, data |-> now,
         err |-> IF BLen(now) >= need THEN "nil"
                 ELSE IF r.err = "eof" /\ BLen(now) > 0 THEN "unexpectedEOF"
                 ELSE r.err,
         blocked |-> FALSE]
    ELSE ReadFullC(r.c, r.segs, end, need, both, now)
ReadFullCStep(cn, segs, end, need, both, got, r) ==
    ReadFullCNext(cn, segs, end, need, both, got, r, Concat(got, r.out))
ReadFullC(cn, segs, end, need, both, got) ==
    IF BLen(got) >= need
    THEN [c |-> cn, segs |-> segs, data |-> got, err |-> "nil", blocked |-> FALSE]
    ELSE ReadFullCStep(cn, segs, end, need, both, got, Read(cn, segs, end, need - BLen(got), both))

DeferredNone(n) == n
\* the deferred dst.Close() of a relay loop
Deferred(n) == n + 1
\* why a failed read of src ends the loop
ReadStop(err) == IF err = "eof" THEN "eof" ELSE "readerr"

PipeIterErrFirst(segs, end, both, dlog, dbud, part) ==
    LET r == TRead(segs, end, leakyBufSize, both)
        w == IF BLen(r.data) > 0 /\ r.err = "nil" THEN TWrite(dlog, dbud, r.data, part)
             ELSE [log |-> dlog, budget |-> dbud, n |-> 0, err |-> "nil"]
    IN [segs |-> r.segs, read |-> r.data, rerr |-> r.err, blocked |-> r.blocked,
        dlog |-> w.log, dbud |-> w.budget,
        stop |-> IF w.err # "nil" THEN "dstwrite"
                 ELSE IF r.err # "nil" THEN ReadStop(r.err) ELSE "none"]
\* one iteration of PipeThenClose
PipeIter(segs, end, both, dlog, dbud, part) ==
    LET r == TRead(segs, end, leakyBufSize, both)
        w == IF BLen(r.data) > 0 THEN TWrite(dlog, dbud, r.data, part)
             ELSE [log |-> dlog, budget |-> dbud, n |-> 0, err |-> "nil"]
    IN [segs |-> r.segs, read |-> r.data, rerr |-> r.err, blocked |-> r.blocked,
        dlog |-> w.log, dbud |-> w.budget,
        stop |-> IF w.err # "nil" THEN "dstwrite"
                 ELSE IF r.err # "nil" THEN ReadStop(r.err) ELSE "none"]

TagAlwaysOk(expected, actual) == TRUE
\* bytes.Equal(expectedHmacSha1, actualHmacSha1)
TagOk(expected, actual) == expected = actual

\* the data region of a chunk that declares dataLen bytes: its length, or
\* -1 when slicing the pooled buffer panics.  idxData0+dataLen is uint16
\* arithmetic.
DataRegion(dataLen) ==
    LET sum16 == (idxData0 + dataLen) % 65536
    IN IF leakyBufSize < sum16 THEN dataLen
       ELSE IF sum16 < idxData0 THEN -1
       ELSE sum16 - idxData0

\* one iteration of PipeThenCloseOta; guess is the value of a length field
\* that did not arrive intact
\* (reads: which of the iteration's two reads of src were issued)
OtaOut(cc, ss, dl, db, stop, blk, reads) ==
    [c |-> cc, segs |-> ss, dlog |-> dl, dbud |-> db, stop |-> stop, blocked |-> blk,
     reads |-> reads]
HeaderOnly == <<"header">>
\* io.ReadFull(src, dataBuf) reads src unless dataBuf is empty
WithData(d) == IF d.err # "nil" \/ BLen(d.data) > 0 THEN <<"header", "data">> ELSE HeaderOnly
\* dst.Write(buf[idxData0 : idxData0+dataLen]) and its error check
OtaForward(cc, ss, w, d) ==
    OtaOut(cc, ss, w.log, w.budget, IF w.err # "nil" THEN "dstwrite" ELSE "none", FALSE,
           WithData(d))
\* the tag is recomputed over iv ++ chunk id and compared
OtaVerify(dlog, dbud, part, expectedHmacSha1, d, g) ==
    IF ~TagOk(expectedHmacSha1, HmacSha1(Concat(g.c.iv, U32(g.chunkId)), d.data))
    THEN OtaOut(g.c, d.segs, dlog, dbud, "mismatch", FALSE, WithData(d))
    ELSE OtaForward(g.c, d.segs, TWrite(dlog, dbud, d.data, part), d)
\* the outcome d of reading the data region
OtaData(cn, segs, dlog, dbud, part, expectedHmacSha1, d) ==
    IF d.blocked THEN OtaOut(cn, segs, dlog, dbud, "none", TRUE, HeaderOnly)
    ELSE IF d.err # "nil"
    THEN OtaOut(d.c, d.segs, dlog, dbud, ReadStop(d.err), FALSE, WithData(d))
    ELSE OtaVerify(dlog, dbud, part, expectedHmacSha1, d, GetAndIncrChunkId(d.c))
\* the outcome h of reading the 12-byte header
OtaHeader(cn, segs, end, both, dlog, dbud, part, h, region) ==
    IF h.blocked THEN OtaOut(cn, segs, dlog, dbud, "none", TRUE, HeaderOnly)
    ELSE IF h.err # "nil"
    THEN OtaOut(h.c, h.segs, dlog, dbud, ReadStop(h.err), FALSE, HeaderOnly)
    ELSE IF region = -1 THEN OtaOut(h.c, h.segs, dlog, dbud, "panic", FALSE, HeaderOnly)
    ELSE OtaData(cn, segs, dlog, dbud, part, Slice(h.data, dataLenLen, idxData0),
                 ReadFullC(h.c, h.segs, end, region, both, <<>>))
\* binary.BigEndian.Uint16(buf[:dataLenLen])
DataLenOf(field, guess) == IF field = -1 THEN guess ELSE field
OtaLen(cn, segs, end, both, dlog, dbud, part, guess, h) ==
    OtaHeader(cn, segs, end, both, dlog, dbud, part, h,
              DataRegion(DataLenOf(Uint16(Take(h.data, dataLenLen)), guess)))
OtaIter(cn, segs, end, both, dlog, dbud, part, guess) ==
    OtaLen(cn, segs, end, both, dlog, dbud, part, guess,
           ReadFullC(cn, segs, end, dataLenLen + hmacSha1Len, both, <<>>))

MaxChunks == 2
PlainLen == 5000
ChunkLens == {0, 5, 65524}
\* what a damaged length field may decode to: never the length that was sent
WrongLens == {1, 300}
PlainStream == Bytes(DataBlob(200), PlainLen)
\* the OTA handshake that precedes the relay: the client dials, the server
\* reads the IV and the address record off its accepted connection
Handshake == DialWithRawAddr(AddrRecord, Key, TRUE, TRUE, TRUE, <<>>, 2, 1)
Accepted ==
    Read(NewConn(Key, TRUE, TRUE),
         <<Concat(Handshake.log[1].data, Handshake.log[2].data)>>, "open", leakyBufSize, FALSE).c

RelayInit ==
    /\ mode \in {"plain", "ota"}
    /\ via = "none" /\ rx = <<>> /\ rxEnd = "open"
    /\ rawaddr = AddrRecord /\ ret = NoRet /\ calls = <<>> /\ plain = <<>> /\ ivArgs = <<>>
    /\ tampered = 0 /\ flight = <<>>
    /\ pc = "run" /\ why = "none" /\ dwire = <<>> /\ dcloses = 0 /\ srcCloses = 0
    /\ srcRead = <<>> /\ lastRead = NoRead
    /\ dbudget \in {0, 1, MaxChunks + 2}
    /\ IF mode = "plain"
       THEN /\ c = NoConn /\ snd = NoConn /\ peer = PlainStream
            /\ wire = <<>> /\ wbudget = 0
       ELSE /\ c = Accepted /\ snd = Handshake.c /\ peer = <<>>
            /\ wire = Handshake.log /\ wbudget = MaxChunks
    /\ PoolIdle /\ readTimeout \in {0, 30} /\ srcLog = <<>> /\ ExtraIdle

\* SetReadTimeout(src): the deadline is armed if a timeout is configured
SetReadTimeout(timeout) == IF timeout # 0 THEN <<"arm">> ELSE <<>>

\* an iteration of PipeThenClose(src, dst); leaving the loop runs the defers
PipeStep ==
    /\ mode = "plain" /\ pc = "run"
    /\ \E both \in BOOLEAN, part \in {1} :
        \E it \in {PipeIter(rx, rxEnd, both, dwire, dbudget, part)} :
           /\ ~it.blocked
           /\ rx' = it.segs /\ dwire' = it.dlog /\ dbudget' = it.dbud
           /\ srcRead' = Concat(srcRead, it.read)
           /\ lastRead' = [n |-> BLen(it.read), err |-> it.rerr]
           /\ why' = it.stop
           /\ pc' = IF it.stop = "none" THEN "run" ELSE "done"
           /\ dcloses' = IF it.stop = "none" THEN dcloses ELSE Deferred(dcloses)
    /\ srcLog' = SetReadTimeout(readTimeout) \o <<"read">>
    /\ UNCHANGED <<c, via, rxEnd, peer, wire, wbudget, rawaddr, ret, calls, plain, ivArgs>>
    /\ UNCHANGED <<mode, snd, flight, tampered, srcCloses>>
    /\ UNCHANGED <<poolVars, readTimeout, extraVars>>

\* an iteration of PipeThenCloseOta(src, dst), src the accepted Conn
OtaStep ==
    /\ mode = "ota" /\ pc = "run"
    /\ \E both \in BOOLEAN, part \in {1}, guess \in WrongLens :
        \E it \in {OtaIter(c, rx, rxEnd, both, dwire, dbudget, part, guess)} :
           /\ ~it.blocked
           /\ c' = it.c /\ rx' = it.segs /\ dwire' = it.dlog /\ dbudget' = it.dbud
           /\ why' = it.stop
           /\ pc' = IF it.stop = "none" THEN "run"
                    ELSE IF it.stop = "panic" THEN "panic" ELSE "done"
           /\ dcloses' = IF it.stop = "none" THEN dcloses ELSE Deferred(dcloses)
           /\ srcLog' = SetReadTimeout(readTimeout) \o it.reads
           /\ ids' = IF it.c.chunkId # c.chunkId
                     THEN Append(ids, [by |-> "relay", id |-> c.chunkId]) ELSE ids
    /\ UNCHANGED <<via, rxEnd, peer, wire, wbudget, rawaddr, ret, calls, plain, ivArgs>>
    /\ UNCHANGED <<mode, snd, flight, tampered, srcCloses, srcRead, lastRead>>
    /\ UNCHANGED <<poolVars, readTimeout, fnVars, procs, back>>

\* the peer's Conn.Write(b): one chunk goes onto the wire
SenderWrite ==
    /\ mode = "ota" /\ Len(calls) < MaxChunks
    /\ \E len \in ChunkLens :
        \E b \in {Bytes(DataBlob(Len(calls) + 1), len)} :
        \E r \in {Write(snd, wire, wbudget, b, 1)} :
           /\ snd' = r.c /\ wire' = r.log /\ wbudget' = r.budget
           /\ flight' = Append(flight, r.log[Len(r.log)].data)
           /\ calls' = Append(calls, b)
    /\ UNCHANGED <<c, via, rx, rxEnd, peer, rawaddr, ret, plain, ivArgs>>
    /\ UNCHANGED <<mode, tampered, pc, why, dwire, dbudget, dcloses, srcCloses, srcRead, lastRead>>
    /\ UNCHANGED auxVars

\* one byte of the next chunk in flight is changed, at offset o
FlipAt(bs, o) ==
    LET e == Take(Drop(bs, o), 1)
    IN Concat(Concat(Take(bs, o), <<[e[1] EXCEPT !.x = 1 - e[1].x]>>), Drop(bs, o + 1))
Tamper ==
    /\ mode = "ota" /\ tampered = 0 /\ flight # <<>>
    /\ \E o \in {0, dataLenLen, idxData0} :
        /\ o < BLen(Head(flight))
        /\ flight' = <<FlipAt(Head(flight), o)>> \o Tail(flight)
    /\ tampered' = Len(calls) - Len(flight) + 1
    /\ UNCHANGED connVars
    /\ UNCHANGED <<mode, snd, pc, why, dwire, dbudget, dcloses, srcCloses, srcRead, lastRead>>
    /\ UNCHANGED auxVars

\* the next chunk in flight arrives: as one segment, joined to the segment
\* before it (k = -1) or, the first chunk, cut in two at k
DeliverChunk ==
    /\ mode = "ota" /\ flight # <<>> /\ rxEnd = "open"
    /\ \E k \in {-1, 0, 5, idxData0, idxData0 + 1} :
        LET h == Head(flight)
        IN /\ k = -1 => rx # <<>>
           /\ k > 0 => Len(calls) = Len(flight)
           /\ rx' = IF k = -1 THEN [rx EXCEPT ![Len(rx)] = Concat(@, h)]
                    ELSE IF k = 0 \/ k >= BLen(h) THEN Append(rx, h)
                    ELSE rx \o <<Take(h, k), Drop(h, k)>>
    /\ flight' = Tail(flight)
    /\ UNCHANGED <<c, via, rxEnd, peer, wire, wbudget, rawaddr, ret, calls, plain, ivArgs>>
    /\ UNCHANGED <<mode, snd, tampered, pc, why, dwire, dbudget, dcloses, srcCloses, srcRead,
                   lastRead>>
    /\ UNCHANGED auxVars

\* the plain relay's src stream arrives cut at a few places
DeliverPlain ==
    /\ mode = "plain"
    /\ DeliverOf(PlainLen, {<<0, 5>>, <<5, leakyBufSize + 1>>, <<0, leakyBufSize + 1>>})

RelayNext == PipeStep \/ OtaStep \/ SenderWrite \/ Tamper \/ DeliverChunk \/ DeliverPlain
                \/ EndStream

SpecRelay == RelayInit /\ [][RelayNext]_vars

\* ------------------------------------------------------------ relay claims
\* the bytes dst has accepted, in the order of its writes
RECURSIVE Written(_)
Written(log) ==
    IF log = <<>> THEN <<>>
    ELSE Concat(Written(SubSeq(log, 1, Len(log) - 1)),
                Take(log[Len(log)].data, log[Len(log)].n))

\* C1: chunks sent by Conn.Write on an OTA connection and received in order,
\* untouched, by PipeThenCloseOta are each written to dst unmodified and in
\* the order sent; the loop never stops on a tag mismatch or a failure of
\* its own; once every chunk sent has been received, the receiver's chunk
\* id and the sender's chunk id both equal the number of chunks.
C1_ChunksForwardedInOrder ==
    (mode = "ota" /\ tampered = 0) =>
        /\ Len(dwire) <= Len(calls)
        /\ \A i \in 1..Len(dwire) : dwire[i].data = calls[i]
        /\ why \notin {"mismatch", "panic"}
        /\ (pc = "run" /\ rx = <<>> /\ flight = <<>>) =>
            /\ Len(dwire) = Len(calls)
            /\ c.chunkId = [hi |-> 0, lo |-> Len(calls)]
            /\ snd.chunkId = c.chunkId

\* C2: a chunk whose recomputed tag differs from the tag received is not
\* written to dst, nor is any later chunk, and the loop ends with dst
\* closed; a chunk changed in transit is such a chunk.
C2_MismatchForwardsNothing ==
    /\ why = "mismatch" => pc = "done" /\ dcloses = 1
    /\ tampered > 0 => Len(dwire) < tampered
C2_Witness ==
    /\ why = "mismatch" /\ tampered = 2 /\ Len(dwire) = 1 /\ dwire[1].err = "nil"
    /\ BLen(calls[2]) > 0

\* C3: in PipeThenClose the bytes written to dst are at every point a prefix
\* of the bytes read from src; a read that returns bytes together with an
\* error has its bytes written before the loop stops, and the loop stops
\* only with everything read written, or on a dst write error.
C3_PrefixAndLastBytes ==
    mode = "plain" =>
        /\ IsPrefix(Written(dwire), srcRead)
        /\ pc = "run" => Written(dwire) = srcRead
        /\ pc = "done" => why = "dstwrite" \/ Written(dwire) = srcRead
        /\ (lastRead.n > 0 /\ lastRead.err # "nil") =>
            /\ pc = "done"
            /\ dwire # <<>> /\ BLen(dwire[Len(dwire)].data) = lastRead.n
            /\ IsPrefix(dwire[Len(dwire)].data, Drop(srcRead, BLen(srcRead) - lastRead.n))
C3_Witness ==
    /\ mode = "plain" /\ lastRead.n > 0 /\ lastRead.err = "eof" /\ why = "eof"
    /\ Len(dwire) = 2 /\ Written(dwire) = PlainStream

\* C4: a relay loop that has ended, by whatever exit, has closed dst exactly
\* once and has never closed src; dst is not closed while the loop runs, and
\* nothing is written to dst after the close.
C4_DstClosedOnce ==
    /\ [](/\ pc = "run" => dcloses = 0
          /\ pc # "run" => dcloses = 1
          /\ srcCloses = 0 /\ c.closes = 0)
    /\ [][dcloses > 0 => dwire' = dwire]_vars
C4_Witness ==
    /\ pc = "done" /\ why = "dstwrite" /\ dcloses = 1 /\ Len(dwire) = 2

\* C12: with a nonzero read timeout every read of src that a relay loop
\* issues (the one read of PipeThenClose, the header read and the data read
\* of PipeThenCloseOta) comes directly after an arming of the deadline; with
\* a zero timeout the deadline is never armed.
C12_ArmedBeforeEveryRead ==
    /\ readTimeout = 0 => \A i \in 1..Len(srcLog) : srcLog[i] # "arm"
    /\ readTimeout # 0 =>
        \A i \in 1..Len(srcLog) : srcLog[i] # "arm" => (i > 1 /\ srcLog[i - 1] = "arm")

\* ------------------------------------------------------------ buffer pool
\* SpecPool: connections borrow two scratch buffers each from the pool, a
\* pair of relay loops runs between connections 1 and 2 (loop 1 reads 1 and
\* writes 2, loop 2 the reverse), reads are in progress while other
\* processes close.
PoolCap == 4
MaxCloses == 2
ConnIds == 1..3
LoopIds == 1..2
LoopSrc(l) == l
LoopDst(l) == 3 - l

\* leakyBuf.Get: a buffer off the free list, a fresh one if it is empty
Get(fr, n) ==
    IF fr # <<>> THEN [buf |-> Head(fr), free |-> Tail(fr), nbuf |-> n]
    ELSE [buf |-> n + 1, free |-> fr, nbuf |-> n + 1]
\* leakyBuf.Put: onto the free list, dropped if the list is full
Put(fr, b) == IF Len(fr) < PoolCap THEN Append(fr, b) ELSE fr

NoBufs == [st |-> "none", readBuf |-> 0, writeBuf |-> 0, closes |-> 0, rd |-> 0]
NoLoop == [pc |-> "idle", buf |-> 0]

PoolInit ==
    /\ free = <<>> /\ nbuf = 0
    /\ cs = [i \in ConnIds |-> NoBufs]
    /\ lp = [l \in LoopIds |-> NoLoop]
    /\ c = NoConn /\ via = "none" /\ rx = <<>> /\ rxEnd = "open" /\ peer = <<>>
    /\ wire = <<>> /\ wbudget = 0 /\ rawaddr = AddrRecord
    /\ ret = NoRet /\ calls = <<>> /\ plain = <<>> /\ ivArgs = <<>>
    /\ RelayIdle /\ TimerIdle /\ ExtraIdle

\* NewConn: readBuf and writeBuf are two Gets
PoolNewConn ==
    /\ \E i \in ConnIds :
        /\ cs[i].st = "none"
        /\ \E g1 \in {Get(free, nbuf)} : \E g2 \in {Get(g1.free, g1.nbuf)} :
            /\ cs' = [cs EXCEPT ![i] = [NoBufs EXCEPT !.st = "open", !.readBuf = g1.buf,
                                                      !.writeBuf = g2.buf]]
            /\ free' = g2.free /\ nbuf' = g2.nbuf
    /\ UNCHANGED lp /\ UNCHANGED <<connVars, relayVars, timerVars, extraVars>>

\* Conn.Close, by any process that holds the connection: both buffers are
\* Put, the transport is closed
CloseBufs(fr, k) == Put(Put(fr, k.readBuf), k.writeBuf)
PoolClose ==
    /\ \E i \in ConnIds :
        /\ cs[i].st # "none" /\ cs[i].closes < MaxCloses
        /\ free' = CloseBufs(free, cs[i])
        /\ cs' = [cs EXCEPT ![i].st = "closed", ![i].closes = @ + 1]
    /\ UNCHANGED <<nbuf, lp>> /\ UNCHANGED <<connVars, relayVars, timerVars, extraVars>>

\* a relay loop starts: buf := leakyBuf.Get()
LoopStart ==
    /\ \E l \in LoopIds :
        /\ lp[l].pc = "idle" /\ cs[1].st = "open" /\ cs[2].st = "open"
        /\ \E g \in {Get(free, nbuf)} :
            /\ lp' = [lp EXCEPT ![l] = [pc |-> "run", buf |-> g.buf]]
            /\ free' = g.free /\ nbuf' = g.nbuf
    /\ UNCHANGED cs /\ UNCHANGED <<connVars, relayVars, timerVars, extraVars>>

\* the loop calls src.Read: Conn.Read takes c.readBuf as its scratch region
\* and waits in the transport read
LoopRead ==
    /\ \E l \in LoopIds :
        /\ lp[l].pc = "run" /\ cs[LoopSrc(l)].closes = 0
        /\ lp' = [lp EXCEPT ![l].pc = "reading"]
        /\ cs' = [cs EXCEPT ![LoopSrc(l)].rd = cs[LoopSrc(l)].readBuf]
    /\ UNCHANGED <<free, nbuf>> /\ UNCHANGED <<connVars, relayVars, timerVars, extraVars>>

\* the transport read returns; the loop goes on, or leaves: the deferred
\* leakyBuf.Put(buf) and dst.Close() run
LoopReturn ==
    /\ \E l \in LoopIds, stop \in BOOLEAN :
        /\ lp[l].pc = "reading"
        /\ lp' = [lp EXCEPT ![l].pc = IF stop THEN "done" ELSE "run"]
        /\ free' = IF stop THEN CloseBufs(Put(free, lp[l].buf), cs[LoopDst(l)]) ELSE free
        /\ cs' = IF stop
                 THEN [cs EXCEPT ![LoopSrc(l)].rd = 0, ![LoopDst(l)].st = "closed",
                                 ![LoopDst(l)].closes = @ + 1]
                 ELSE [cs EXCEPT ![LoopSrc(l)].rd = 0]
    /\ UNCHANGED nbuf /\ UNCHANGED <<connVars, relayVars, timerVars, extraVars>>

PoolNext == PoolNewConn \/ PoolClose \/ LoopStart \/ LoopRead \/ LoopReturn
SpecPool == PoolInit /\ [][PoolNext]_vars

\* the buffers a connection or a loop holds: from its Get to its Put, and
\* as long as a read of it has the buffer as its scratch region
ConnHolds(i) ==
    (IF cs[i].st = "open" THEN {cs[i].readBuf, cs[i].writeBuf} ELSE {}) \cup
    (IF cs[i].rd # 0 THEN {cs[i].rd} ELSE {})
LoopHolds(l) == IF lp[l].pc \in {"run", "reading"} THEN {lp[l].buf} ELSE {}

\* C11: no pool buffer is held by two holders at once; a connection's two
\* buffers are distinct, are returned to the pool once (never twice) and are
\* not in use by that connection after they were returned.
C11_BuffersExclusive ==
    /\ \A i, j \in ConnIds : i # j => ConnHolds(i) \cap ConnHolds(j) = {}
    /\ \A i \in ConnIds, l \in LoopIds : ConnHolds(i) \cap LoopHolds(l) = {}
    /\ LoopHolds(1) \cap LoopHolds(2) = {}
    /\ \A i \in ConnIds :
        /\ cs[i].st = "open" => cs[i].readBuf # cs[i].writeBuf
        /\ cs[i].closes <= 1
        /\ cs[i].closes > 0 => cs[i].rd = 0

\* ------------------------------------------------------------ address record
\* RawAddr(addr): addr is given by what net.SplitHostPort and strconv.Atoi
\* make of it (whether each accepts it, the host and the integer parsed)
HostBlob == Blob("host", 1, <<>>, <<>>)
U8(v) == Bytes(Blob("u8", v % 256, <<>>, <<>>), 1)
RawAddr(a) ==
    IF ~a.splitOk THEN [buf |-> <<>>, err |-> "address"]
    ELSE IF ~a.atoiOk THEN [buf |-> <<>>, err |-> "port"]
    ELSE [buf |-> Concat(Concat(Concat(Bytes(Blob("atyp", 3, <<>>, <<>>), 1), U8(a.hostLen)),
                                Bytes(HostBlob, a.hostLen)),
                         U16(a.port)),
          err |-> "nil"]

\* the wire format read back: type byte, length byte, host, big-endian port
ByteVal(bs, t) ==
    IF Len(bs) = 1 /\ bs[1].b.t = t /\ bs[1].n = 1 /\ bs[1].k = 0 /\ bs[1].x = 0
    THEN bs[1].b.id ELSE -1
DecodeAddr(buf) ==
    LET len == ByteVal(Slice(buf, 1, 2), "u8")
    IN [typ |-> ByteVal(Take(buf, 1), "atyp"),
        host |-> Slice(buf, 2, 2 + len),
        port |-> Uint16(Slice(buf, 2 + len, 4 + len)),
        size |-> 4 + len]

HostLens == {0, 1, 14, 255, 256, 300}
Ports == {-1, 0, 80, 443, 65535, 65536, 65616}
AddrInit ==
    /\ fnIn \in [hostLen : HostLens, port : Ports, splitOk : BOOLEAN, atoiOk : BOOLEAN]
    /\ fnOut = NoResult
    /\ c = NoConn /\ via = "none" /\ rx = <<>> /\ rxEnd = "open" /\ peer = <<>>
    /\ wire = <<>> /\ wbudget = 0 /\ rawaddr = AddrRecord
    /\ ret = NoRet /\ calls = <<>> /\ plain = <<>> /\ ivArgs = <<>>
    /\ RelayIdle /\ PoolIdle /\ TimerIdle /\ procs = <<>> /\ back = <<>> /\ ids = <<>>
CallRawAddr ==
    /\ ~fnOut.done
    /\ \E r \in {RawAddr(fnIn)} : fnOut' = [done |-> TRUE, buf |-> r.buf, err |-> r.err]
    /\ UNCHANGED <<connVars, relayVars, poolVars, timerVars, fnIn, procs, duplexVars>>
SpecAddr == AddrInit /\ [][CallRawAddr]_vars

\* C13: a record RawAddr returns for a host of at most 255 bytes decodes by
\* the wire format to the same host and the same numeric port.
C13_AddrRoundTrip ==
    (fnOut.done /\ fnOut.err = "nil" /\ fnIn.hostLen <= 255) =>
        LET d == DecodeAddr(fnOut.buf)
        IN /\ d.typ = 3 /\ d.size = BLen(fnOut.buf)
           /\ d.host = Bytes(HostBlob, fnIn.hostLen)
           /\ d.port = fnIn.port

\* ------------------------------------------------------------ data region
\* where dataBuf comes from: a one-off allocation or a slice of the pooled
\* buffer, by the test len(buf) < int(idxData0+dataLen)
DataBufFrom(dataLen) ==
    IF leakyBufSize < (idxData0 + dataLen) % 65536 THEN "make" ELSE "slice"

RegionInit ==
    /\ fnIn \in 0..65535
    /\ fnOut = NoResult
    /\ c = NoConn /\ via = "none" /\ rx = <<>> /\ rxEnd = "open" /\ peer = <<>>
    /\ wire = <<>> /\ wbudget = 0 /\ rawaddr = AddrRecord
    /\ ret = NoRet /\ calls = <<>> /\ plain = <<>> /\ ivArgs = <<>>
    /\ RelayIdle /\ PoolIdle /\ TimerIdle /\ procs = <<>> /\ back = <<>> /\ ids = <<>>
\* the header of a chunk declares fnIn data bytes
CallDataRegion ==
    /\ ~fnOut.done
    /\ fnOut' = [done |-> TRUE, region |-> DataRegion(fnIn), from |-> DataBufFrom(fnIn)]
    /\ UNCHANGED <<connVars, relayVars, poolVars, timerVars, fnIn, procs, duplexVars>>
SpecRegion == RegionInit /\ [][CallDataRegion]_vars

\* C14: for every declared data length 0..65535 the data region has exactly
\* the declared length (no declared length makes the loop fail before the
\* read), and it is a slice of the pooled buffer exactly when header plus
\* data fit in the buffer, computed without 16-bit wraparound.
C14_RegionIsDeclaredLength ==
    fnOut.done =>
        /\ fnOut.region = fnIn
        /\ fnOut.from = "slice" <=> idxData0 + fnIn <= leakyBufSize

\* ------------------------------------------------------------ concurrent callers
\* SpecIncr: several processes call GetAndIncrChunkId on one connection.
\* The method is two statements without any lock: chunkId = c.chunkId, and
\* c.chunkId += 1, itself a load and a store.
MaxCalls == 2
Procs == 1..2
NoProc == [pc |-> "idle", chunkId |-> Zero32, t |-> Zero32, rets |-> <<>>]
IncrInit ==
    /\ c = NewConn(Key, TRUE, TRUE)
    /\ procs = [p \in Procs |-> NoProc]
    /\ via = "accept" /\ rx = <<>> /\ rxEnd = "open" /\ peer = <<>>
    /\ wire = <<>> /\ wbudget = 0 /\ rawaddr = AddrRecord
    /\ ret = NoRet /\ calls = <<>> /\ plain = <<>> /\ ivArgs = <<>>
    /\ RelayIdle /\ PoolIdle /\ TimerIdle /\ FnIdle /\ back = <<>> /\ ids = <<>>

IncrFrame ==
    /\ UNCHANGED <<via, rx, rxEnd, peer, wire, wbudget, rawaddr, ret, calls, plain, ivArgs>>
    /\ UNCHANGED <<relayVars, poolVars, timerVars, fnVars, duplexVars>>
\* chunkId = c.chunkId
LoadChunkId ==
    /\ \E p \in Procs :
        /\ procs[p].pc = "idle" /\ Len(procs[p].rets) < MaxCalls
        /\ procs' = [procs EXCEPT ![p].pc = "loaded", ![p].chunkId = c.chunkId]
    /\ UNCHANGED c /\ IncrFrame
\* c.chunkId += 1: the operand is read
LoadForAdd ==
    /\ \E p \in Procs :
        /\ procs[p].pc = "loaded"
        /\ procs' = [procs EXCEPT ![p].pc = "adding", ![p].t = c.chunkId]
    /\ UNCHANGED c /\ IncrFrame
\* c.chunkId += 1: the sum is stored; return
StoreAndReturn ==
    /\ \E p \in Procs :
        /\ procs[p].pc = "adding"
        /\ c' = [c EXCEPT !.chunkId = Incr32(procs[p].t)]
        /\ procs' = [procs EXCEPT ![p].pc = "idle",
                                  ![p].rets = Append(@, procs[p].chunkId)]
    /\ IncrFrame
IncrNext == LoadChunkId \/ LoadForAdd \/ StoreAndReturn
SpecIncr == IncrInit /\ [][IncrNext]_vars

\* the ids all calls have returned so far
Returned == {<<p, n>> : p \in Procs, n \in 1..MaxCalls}
RetAt(q) == procs[q[1]].rets[q[2]]
Done == {q \in Returned : q[2] <= Len(procs[q[1]].rets)}

\* C16: the ids that concurrent calls of GetAndIncrChunkId on one connection
\* return are pairwise distinct, and once k calls have returned and none is
\* in progress the counter has advanced by exactly k.
C16_AtomicGetAndIncr ==
    /\ \A q, r \in Done : q # r => RetAt(q) # RetAt(r)
    /\ (\A p \in Procs : procs[p].pc = "idle") =>
        c.chunkId = [hi |-> 0, lo |-> Cardinality(Done)]

\* ------------------------------------------------------------ both directions
\* SpecDuplex: the connection that PipeThenCloseOta reads is at the same
\* time the dst of the opposite relay, whose dst.Write is Conn.Write on it.
MaxBack == 2
DuplexInit == RelayInit /\ mode = "ota"

\* the opposite relay's dst.Write(buf[0:n]): Conn.Write on the src connection
ReverseWrite ==
    /\ mode = "ota" /\ pc = "run" /\ Len(back) < MaxBack
    /\ \E b \in {Bytes(DataBlob(300 + Len(back)), 5)} :
        \E r \in {Write(c, back, 1, b, 1)} :
           /\ c' = r.c /\ back' = r.log
           /\ ids' = IF r.c.chunkId # c.chunkId
                     THEN Append(ids, [by |-> "write", id |-> c.chunkId]) ELSE ids
    /\ UNCHANGED <<via, rx, rxEnd, peer, wire, wbudget, rawaddr, ret, calls, plain, ivArgs>>
    /\ UNCHANGED <<relayVars, poolVars, timerVars, fnVars, procs>>

DuplexNext == OtaStep \/ SenderWrite \/ DeliverChunk \/ EndStream \/ ReverseWrite
SpecDuplex == DuplexInit /\ [][DuplexNext]_vars

\* how many ids were handed to the same user before the n-th
Earlier(n) == Cardinality({m \in 1..(n - 1) : ids[m].by = ids[n].by})

\* C20: on a connection that is read by PipeThenCloseOta and written by
\* Conn.Write, the relay verifies its k-th chunk with chunk id k-1 however
\* many Writes have happened, and Write uses j-1 for its j-th chunk however
\* many chunks the relay has verified.
C20_IdsPerDirection ==
    \A n \in 1..Len(ids) : ids[n].id = [hi |-> 0, lo |-> Earlier(n)]

====
